---- MODULE Spec2Model ----
(***************************************************************************)
(* State-machine model of src/scripts.js: the debounced in-page search,    *)
(* the result de-duplication of displaySearchResults, the clipboard copy   *)
(* service with its feedback-revert timers, and the DOMContentLoaded       *)
(* handler with language detection, the reading-progress bar and the       *)
(* back-to-top button, the search-term highlighter, and the feedback       *)
(* modal with its reset and simulated-send timers.                         *)
(*                                                                         *)
(* Strings are sequences of one-character strings.  The browser's timer    *)
(* table is the set `timers`; a timer is due when its remaining time is 0. *)
(***************************************************************************)
EXTENDS Integers, Sequences, FiniteSets, TLC

VARIABLES
    dom,            \* content tree under .main-content, in document order
    inputValue,     \* searchInput.value
    searchTimeout,  \* the handle held by `let searchTimeout` (0 = undefined)
    searchResults,  \* searchResults.innerHTML (render model)
    lastQuery,      \* `query` of the most recent performSearch
    results,        \* `results` of the most recent performSearch
    uniqueResults,  \* `uniqueResults` of the most recent displaySearchResults
    timers,         \* pending timers: [id, rem, cb, inv]
    nextTimerId,    \* next handle setTimeout returns
    inputCount,     \* input events dispatched so far
    sinceInput,     \* time elapsed since the most recent input event (capped)
    execsSinceInput,\* performSearch executions since the most recent input event
    searchRuns,     \* performSearch executions so far
    hasClipboard,   \* navigator.clipboard is defined
    isSecureContext,\* window.isSecureContext
    label,          \* copy button textContent
    classList,      \* copy button feedback classes
    textAreas,      \* temporary textareas currently attached to document.body
    promises,       \* invocations whose clipboard promise has not settled
    invs,           \* per copy invocation: what happened to it
    lastSignal,     \* the invocation whose feedback was signalled last (0 = none)
    hasMermaid,     \* the global `mermaid` is defined
    hasPrism,       \* the global `Prism` is defined
    hasProgressBar, \* #progressBar is in the document
    hasBackToTop,   \* #backToTop is in the document
    hasSearchInput, \* #searchInput is in the document
    scrollable,     \* scrollHeight - clientHeight of the document element
    codeText,       \* textContent of the page's code block
    loaded,         \* the DOMContentLoaded handler has run
    initError,      \* the DOMContentLoaded handler ended by an exception
    wired,          \* the features whose listeners are registered
    language,       \* the language class given to the code block ("" = none)
    highlighted,    \* Prism.highlightAll has run
    scrollTop,      \* the scroll offset (window.pageYOffset)
    progressWidth,  \* progressBar.style.width ("" = never set)
    backToTopDisplay, \* backToTopButton.style.display ("" = never set)
    scrollEvents,   \* scroll events dispatched so far
    lastClick,      \* where the most recent document click landed
    clickCount,     \* document clicks dispatched so far
    hlText,         \* the text argument of highlightText
    hlQuery,        \* the query argument of highlightText
    hlOut,          \* what the call of highlightText produced
    modalActive,    \* feedbackModal carries the class 'active'
    formDisplay,    \* feedbackForm.style.display ("" = never set)
    successDisplay, \* feedbackSuccess.style.display ("" = never set)
    submitDisabled, \* the submit button is disabled (a send is pending)
    resetRan,       \* the reset of the most recent close has run
    opened,         \* what the most recent opening of the modal found
    modalOps        \* modal events dispatched so far

searchVars == <<dom, inputValue, searchTimeout, searchResults, lastQuery,
                results, uniqueResults, inputCount, sinceInput,
                execsSinceInput, searchRuns>>
copyVars == <<hasClipboard, isSecureContext, label, classList, textAreas,
              promises, invs, lastSignal>>
timerVars == <<timers, nextTimerId>>
envVars == <<hasMermaid, hasPrism, hasProgressBar, hasBackToTop,
             hasSearchInput, scrollable, codeText>>
pageVars == <<loaded, initError, wired, language, highlighted, scrollTop,
              progressWidth, backToTopDisplay, scrollEvents>>
clickVars == <<lastClick, clickCount>>
highlightVars == <<hlText, hlQuery, hlOut>>
modalVars == <<modalActive, formDisplay, successDisplay, submitDisabled,
               resetRan, opened, modalOps>>
vars == <<searchVars, copyVars, timerVars, envVars, pageVars, clickVars,
          highlightVars, modalVars>>

----------------------------------------------------------------------------
(* Bounds of the model *)
MaxInputs == 3
MaxClicks == 3
MaxNodes == 3
TicksPerDebounce == 3
TicksPerRevert == 4
MaxDocClicks == 2
MaxScrolls == 2
MaxSections == 6
MaxChunks == 3
MaxQueryLen == 3
MaxTextLen == 3
MaxPatternLen == 2
MaxOverrun == 1
MaxModalOps == 5
TicksPerReset == 3

(* Constants of the program *)
DebounceDelay == 300
RevertDelay == 2000
MinQueryLength == 2
MaxDisplayed == 5
BackToTopThreshold == 300
FocusDelay == 100
ResetDelay == 300
SendDelay == 1000
FullPercent == 100

SearchTick == DebounceDelay \div TicksPerDebounce
CopyTick == RevertDelay \div TicksPerRevert

Min(a, b) == IF a <= b THEN a ELSE b

----------------------------------------------------------------------------
(* Strings *)

LowerChar(c) == IF c = "A" THEN "a" ELSE IF c = "B" THEN "b" ELSE c

ToLowerCase(s) == [i \in 1..Len(s) |-> LowerChar(s[i])]

IsSpace(c) == c = " "

RECURSIVE TrimStart(_)
TrimStart(s) ==
    IF s # <<>> /\ IsSpace(Head(s)) THEN TrimStart(Tail(s)) ELSE s

RECURSIVE TrimEnd(_)
TrimEnd(s) ==
    IF s # <<>> /\ IsSpace(s[Len(s)])
    THEN TrimEnd(SubSeq(s, 1, Len(s) - 1)) ELSE s

Trim(s) == TrimEnd(TrimStart(s))

\* String.prototype.includes
Includes(text, q) ==
    \E k \in 0..(Len(text) - Len(q)) : SubSeq(text, k + 1, k + Len(q)) = q

----------------------------------------------------------------------------
(* The content tree.  dom[i] = [tag, id, text, parent]; parent 0 is the    *)
(* .main-content element itself; nodes are listed in document order.       *)

NoHeading == 0

RECURSIVE IsAncestorOrSelf(_, _, _)
IsAncestorOrSelf(d, a, i) ==
    IF i = a THEN TRUE
    ELSE IF i = 0 THEN FALSE
    ELSE IsAncestorOrSelf(d, a, d[i].parent)

\* Node.textContent: own text followed by the text of the descendants
RECURSIVE ConcatFrom(_, _, _)
ConcatFrom(d, a, i) ==
    IF i > Len(d) THEN <<>>
    ELSE IF IsAncestorOrSelf(d, a, i) THEN d[i].text \o ConcatFrom(d, a, i + 1)
    ELSE <<>>

TextContent(d, i) == ConcatFrom(d, i, i)

\* a step to the first of the preceding siblings
PreviousElementSiblingFirst(d, i) ==
    LET before == {j \in 1..(i - 1) : d[j].parent = d[i].parent}
    IN IF before = {} THEN 0 ELSE CHOOSE j \in before : \A k \in before : j <= k

PreviousElementSibling(d, i) ==
    LET before == {j \in 1..(i - 1) : d[j].parent = d[i].parent}
    IN IF before = {} THEN 0 ELSE CHOOSE j \in before : \A k \in before : k <= j

ParentElement(d, i) == d[i].parent

HeadingTags == {"h2", "h3", "h4"}
SearchableTags == {"h2", "h3", "h4", "p", "li", "code", "pre"}

\* mainContent.querySelectorAll('h2, h3, h4, p, li, code, pre')
RECURSIVE SelectFrom(_, _)
SelectFrom(d, i) ==
    IF i > Len(d) THEN <<>>
    ELSE IF d[i].tag \in SearchableTags THEN <<i>> \o SelectFrom(d, i + 1)
    ELSE SelectFrom(d, i + 1)

Sections(d) == SelectFrom(d, 1)

\* a walk that looks at the ancestors only
RECURSIVE FindParentHeadingAncestors(_, _)
FindParentHeadingAncestors(d, current) ==
    IF current = 0 THEN NoHeading
    ELSE IF d[current].tag \in HeadingTags /\ d[current].id # "" THEN current
    ELSE FindParentHeadingAncestors(d, ParentElement(d, current))

RECURSIVE FindParentHeadingFrom(_, _)
FindParentHeadingFrom(d, current) ==
    IF current = 0 THEN NoHeading
    ELSE IF d[current].tag \in HeadingTags /\ d[current].id # "" THEN current
    ELSE LET prev == PreviousElementSibling(d, current)
         IN FindParentHeadingFrom(d, IF prev # 0 THEN prev
                                     ELSE ParentElement(d, current))

\* the nodes the while loop of findParentHeading visits, ending with the
\* heading it returns or with 0 when it leaves the region
RECURSIVE WalkFrom(_, _, _)
WalkFrom(d, current, path) ==
    IF current = 0 THEN Append(path, 0)
    ELSE IF d[current].tag \in HeadingTags /\ d[current].id # ""
    THEN Append(path, current)
    ELSE LET prev == PreviousElementSibling(d, current)
         IN WalkFrom(d, IF prev # 0 THEN prev ELSE ParentElement(d, current),
                     Append(path, current))

Walk(d, element) == WalkFrom(d, element, <<>>)

\* a walk that stops at any heading, with or without an id
RECURSIVE FindAnyHeadingFrom(_, _)
FindAnyHeadingFrom(d, current) ==
    IF current = 0 THEN NoHeading
    ELSE IF d[current].tag \in HeadingTags THEN current
    ELSE LET prev == PreviousElementSibling(d, current)
         IN FindAnyHeadingFrom(d, IF prev # 0 THEN prev
                                  ELSE ParentElement(d, current))

FindParentHeadingAnyId(d, element) == FindAnyHeadingFrom(d, element)

FindParentHeading(d, element) == FindParentHeadingFrom(d, element)

----------------------------------------------------------------------------
(* Search: performSearch and displaySearchResults *)

Null == "<null>"
SnippetLimit == 100
Ellipsis == <<".", ".", ".">>

EmptyArea == [kind |-> "empty"]

Normalize(value) == Trim(ToLowerCase(value))

\* a forEach that compares the query with the text as written
RECURSIVE ScanSectionsCaseSensitive(_, _, _, _)
ScanSectionsCaseSensitive(d, secs, query, acc) ==
    IF secs = <<>> THEN acc
    ELSE LET section == Head(secs)
             text == TextContent(d, section)
             heading == FindParentHeading(d, section)
             result == [element |-> section,
                        heading |-> heading,
                        text |-> TextContent(d, section),
                        id |-> IF heading # NoHeading THEN d[heading].id ELSE Null]
             acc2 == IF Includes(text, query)
                        /\ ~(\E k \in 1..Len(acc) : acc[k].element = section)
                     THEN Append(acc, result) ELSE acc
         IN ScanSectionsCaseSensitive(d, Tail(secs), query, acc2)

\* the forEach of performSearch: one result per matching section
RECURSIVE ScanSections(_, _, _, _)
ScanSections(d, secs, query, acc) ==
    IF secs = <<>> THEN acc
    ELSE LET section == Head(secs)
             text == ToLowerCase(TextContent(d, section))
             heading == FindParentHeading(d, section)
             result == [element |-> section,
                        heading |-> heading,
                        text |-> TextContent(d, section),
                        id |-> IF heading # NoHeading THEN d[heading].id ELSE Null]
             acc2 == IF Includes(text, query)
                        /\ ~(\E k \in 1..Len(acc) : acc[k].element = section)
                     THEN Append(acc, result) ELSE acc
         IN ScanSections(d, Tail(secs), query, acc2)

\* a forEach that never consults seenHeadings
RECURSIVE DeduplicateNoSeen(_, _, _)
DeduplicateNoSeen(rs, seenHeadings, acc) ==
    IF rs = <<>> THEN acc
    ELSE LET result == Head(rs)
         IN IF result.heading # NoHeading
            THEN DeduplicateNoSeen(Tail(rs), seenHeadings \cup {result.id},
                                   Append(acc, result))
            ELSE DeduplicateNoSeen(Tail(rs), seenHeadings, acc)

\* the forEach of displaySearchResults: keep the first result of each heading id
RECURSIVE Deduplicate(_, _, _)
Deduplicate(rs, seenHeadings, acc) ==
    IF rs = <<>> THEN acc
    ELSE LET result == Head(rs)
         IN IF result.heading # NoHeading /\ result.id \notin seenHeadings
            THEN Deduplicate(Tail(rs), seenHeadings \cup {result.id},
                             Append(acc, result))
            ELSE Deduplicate(Tail(rs), seenHeadings, acc)

UniqueResults(rs) == Deduplicate(rs, {}, <<>>)

\* a slice that keeps the last n elements
SliceLast(s, n) == SubSeq(s, Len(s) - Min(n, Len(s)) + 1, Len(s))

Slice(s, n) == SubSeq(s, 1, Min(n, Len(s)))

RenderResult(d, result) ==
    [element |-> result.element,
     href |-> result.id,
     headingText |-> IF result.heading # NoHeading
                     THEN TextContent(d, result.heading)
                     ELSE <<"C", "o", "n", "t", "e", "n", "t">>,
     snippet |-> IF Len(result.text) > SnippetLimit
                 THEN SubSeq(result.text, 1, SnippetLimit) \o Ellipsis
                 ELSE result.text]

\* a display that renders every unique result
DisplaySearchResultsNoSlice(d, rs, query) ==
    IF Len(rs) = 0
    THEN [kind |-> "noresults", query |-> query]
    ELSE LET unique == UniqueResults(rs)
         IN [kind |-> "found",
             total |-> Len(rs),
             showing |-> Len(rs) > MaxDisplayed,
             shown |-> [k \in 1..Len(unique) |-> RenderResult(d, unique[k])]]

DisplaySearchResults(d, rs, query) ==
    IF Len(rs) = 0
    THEN [kind |-> "noresults", query |-> query]
    ELSE LET unique == Slice(UniqueResults(rs), MaxDisplayed)
         IN [kind |-> "found",
             total |-> Len(rs),
             showing |-> Len(rs) > MaxDisplayed,
             shown |-> [k \in 1..Len(unique) |-> RenderResult(d, unique[k])]]

\* performSearch with the length check off by one
PerformSearchShort(d, value) ==
    LET query == Normalize(value)
    IN IF Len(query) < MinQueryLength - 1
       THEN [area |-> EmptyArea, query |-> query,
             results |-> <<>>, unique |-> <<>>]
       ELSE LET rs == ScanSections(d, Sections(d), query, <<>>)
            IN [area |-> DisplaySearchResults(d, rs, query), query |-> query,
                results |-> rs,
                unique |-> IF Len(rs) = 0 THEN <<>> ELSE UniqueResults(rs)]

\* what one execution of performSearch leaves behind
PerformSearch(d, value) ==
    LET query == Normalize(value)
    IN IF Len(query) < MinQueryLength
       THEN [area |-> EmptyArea, query |-> query,
             results |-> <<>>, unique |-> <<>>]
       ELSE LET rs == ScanSections(d, Sections(d), query, <<>>)
            IN [area |-> DisplaySearchResults(d, rs, query), query |-> query,
                results |-> rs,
                unique |-> IF Len(rs) = 0 THEN <<>> ELSE UniqueResults(rs)]

----------------------------------------------------------------------------
(* Timers *)

SetTimeout(ts, id, cb, delay, inv) ==
    ts \cup {[id |-> id, rem |-> delay, cb |-> cb, inv |-> inv]}

ClearTimeout(ts, id) == {t \in ts : t.id # id}

Due(ts) == {t \in ts : t.rem = 0}

\* due timers run in the order they were created
NextDue(ts) == CHOOSE t \in Due(ts) : \A u \in Due(ts) : t.id <= u.id

SetMin(S) == CHOOSE x \in S : \A y \in S : x <= y

\* time passes: at most d, and never past the next deadline
Elapse(ts, d) == IF ts = {} THEN d ELSE Min(d, SetMin({t.rem : t \in ts}))

Advance(ts, d) == {[t EXCEPT !.rem = @ - Elapse(ts, d)] : t \in ts}

----------------------------------------------------------------------------
(* Search: event handlers *)

\* a handler that forgets clearTimeout
InputHandlerNoClear(ts, handle, id) ==
    [timers |-> SetTimeout(ts, id, "performSearch", DebounceDelay, 0),
     handle |-> id]

\* a handler that schedules only while no handle has been stored yet
InputHandlerOnce(ts, handle, id) ==
    IF handle = 0
    THEN [timers |-> SetTimeout(ts, id, "performSearch", DebounceDelay, 0),
          handle |-> id]
    ELSE [timers |-> ts, handle |-> handle]

\* searchInput 'input' listener; the event carries the new value
InputHandler(ts, handle, id) ==
    [timers |-> SetTimeout(ClearTimeout(ts, handle), id, "performSearch",
                           DebounceDelay, 0),
     handle |-> id]

InputEvent(v) ==
    /\ inputCount < MaxInputs
    /\ inputValue' = v
    /\ LET h == InputHandler(timers, searchTimeout, nextTimerId)
       IN /\ timers' = h.timers
          /\ searchTimeout' = h.handle
    /\ nextTimerId' = nextTimerId + 1
    /\ inputCount' = inputCount + 1
    /\ sinceInput' = 0
    /\ execsSinceInput' = 0
    /\ UNCHANGED <<dom, searchResults, lastQuery, results, uniqueResults,
                   searchRuns, copyVars,
                   envVars, pageVars, clickVars, highlightVars,
                   modalVars>>

ApplySearch ==
    LET r == PerformSearch(dom, inputValue)
    IN /\ searchResults' = r.area
       /\ lastQuery' = r.query
       /\ results' = r.results
       /\ uniqueResults' = r.unique
       /\ searchRuns' = searchRuns + 1
       /\ execsSinceInput' = execsSinceInput + 1

\* the debounce timer fires and runs performSearch
FireSearchTimer ==
    /\ Due(timers) # {}
    /\ NextDue(timers).cb = "performSearch"
    /\ timers' = timers \ {NextDue(timers)}
    /\ ApplySearch
    /\ UNCHANGED <<dom, inputValue, searchTimeout, nextTimerId, inputCount,
                   sinceInput, copyVars,
                   envVars, pageVars, clickVars, highlightVars,
                   modalVars>>

\* a listener that clears on every outside click
OnDocumentClickAlways(outside, value, area) ==
    IF outside THEN EmptyArea ELSE area

\* document 'click' listener; outside: e.target.closest('.search-container')
\* found nothing
OnDocumentClick(outside, value, area) ==
    IF outside /\ Trim(value) = <<>> THEN EmptyArea ELSE area

ClickDocument(outside) ==
    /\ clickCount < MaxDocClicks
    /\ searchResults' = OnDocumentClick(outside, inputValue, searchResults)
    /\ lastClick' = IF outside THEN "outside" ELSE "inside"
    /\ clickCount' = clickCount + 1
    /\ UNCHANGED <<dom, inputValue, searchTimeout, lastQuery, results,
                   uniqueResults, inputCount, sinceInput, execsSinceInput,
                   searchRuns, copyVars, timerVars, envVars, pageVars,
                   highlightVars, modalVars>>

SearchTime ==
    /\ Due(timers) = {}
    /\ timers' = Advance(timers, SearchTick)
    /\ sinceInput' = Min(DebounceDelay, sinceInput + Elapse(timers, SearchTick))
    /\ UNCHANGED <<dom, inputValue, searchTimeout, searchResults, lastQuery,
                   results, uniqueResults, inputCount, execsSinceInput,
                   searchRuns, nextTimerId, copyVars,
                   envVars, pageVars, clickVars, highlightVars,
                   modalVars>>

----------------------------------------------------------------------------
(* Clipboard copy service.  The handlers run on a record of the state they *)
(* touch: [label, classList, timers, nextTimerId, textAreas, invs, last].  *)

ExecOutcomes == {"true", "false", "throw"}

NewInvocation(api) ==
    [api |-> api,          \* navigator.clipboard.writeText was called
     settled |-> "none",   \* how the writeText promise settled, if it did
     exec |-> "none",      \* what document.execCommand('copy') did, if called
     signal |-> "none",    \* the feedback shown for this invocation
     signals |-> 0,        \* feedback signals so far
     reverts |-> 0,        \* reverts run so far
     since |-> 0]          \* time from the signal to now, or to the revert

Signal(st, i, text) ==
    [st EXCEPT !.invs[i].signal = text,
               !.invs[i].signals = @ + 1,
               !.invs[i].since = 0,
               !.last = i]

ShowCopySuccess(st, i) ==
    LET shown == [st EXCEPT !.label = "Copied!",
                            !.classList = @ \cup {"copied"}]
        timed == [shown EXCEPT
                    !.timers = SetTimeout(@, st.nextTimerId, "revertCopied",
                                          RevertDelay, i),
                    !.nextTimerId = @ + 1]
    IN Signal(timed, i, "Copied!")

\* a catch block that never schedules the revert
CatchCopyErrorNoRevert(st, i) ==
    Signal([st EXCEPT !.label = "Failed", !.classList = @ \cup {"error"}],
           i, "Failed")

\* the catch block of fallbackCopyToClipboard
CatchCopyError(st, i) ==
    LET shown == [st EXCEPT !.label = "Failed",
                            !.classList = @ \cup {"error"}]
        timed == [shown EXCEPT
                    !.timers = SetTimeout(@, st.nextTimerId, "revertError",
                                          RevertDelay, i),
                    !.nextTimerId = @ + 1]
    IN Signal(timed, i, "Failed")

\* a fallback whose removeChild sits inside the try block
FallbackRemoveInTry(st, i, outcome) ==
    LET appended == [st EXCEPT !.textAreas = @ + 1,
                               !.invs[i].exec = outcome]
    IN IF outcome = "throw"
       THEN CatchCopyError(appended, i)
       ELSE [ShowCopySuccess(appended, i) EXCEPT !.textAreas = @ - 1]

FallbackCopyToClipboard(st, i, outcome) ==
    LET appended == [st EXCEPT !.textAreas = @ + 1,
                               !.invs[i].exec = outcome]
        tried == IF outcome = "throw"
                 THEN CatchCopyError(appended, i)
                 ELSE ShowCopySuccess(appended, i)
    IN [tried EXCEPT !.textAreas = @ - 1]

\* writeText is attempted exactly when this holds
UseClipboardApi(clipboard, secure) == clipboard /\ secure

\* a rejection handler that reports the failure at once
OnWriteRejectedFail(st, i, outcome) == CatchCopyError(st, i)

\* the rejection handler of copyToClipboard
OnWriteRejected(st, i, outcome) == FallbackCopyToClipboard(st, i, outcome)

Button ==
    [label |-> label, classList |-> classList, timers |-> timers,
     nextTimerId |-> nextTimerId, textAreas |-> textAreas, invs |-> invs,
     last |-> lastSignal]

SetButton(st) ==
    /\ label' = st.label
    /\ classList' = st.classList
    /\ timers' = st.timers
    /\ nextTimerId' = st.nextTimerId
    /\ textAreas' = st.textAreas
    /\ invs' = st.invs
    /\ lastSignal' = st.last

\* copy button 'click' listener: copyToClipboard(code, copyButton)
ClickCopy ==
    /\ Len(invs) < MaxClicks
    /\ LET i == Len(invs) + 1
           api == UseClipboardApi(hasClipboard, isSecureContext)
           st == [Button EXCEPT !.invs = Append(@, NewInvocation(api))]
       IN IF api
          THEN /\ promises' = promises \cup {i}
               /\ SetButton(st)
          ELSE /\ promises' = promises
               /\ \E outcome \in ExecOutcomes :
                     SetButton(FallbackCopyToClipboard(st, i, outcome))
    /\ UNCHANGED <<envVars, pageVars, clickVars, highlightVars, modalVars,
                   searchVars,
                   hasClipboard, isSecureContext>>

\* navigator.clipboard.writeText(text) resolves
ClipboardResolve ==
    /\ \E i \in promises :
          /\ promises' = promises \ {i}
          /\ SetButton(ShowCopySuccess(
                [Button EXCEPT !.invs[i].settled = "resolved"], i))
    /\ UNCHANGED <<envVars, pageVars, clickVars, highlightVars, modalVars,
                   searchVars,
                   hasClipboard, isSecureContext>>

\* navigator.clipboard.writeText(text) rejects
ClipboardReject ==
    /\ \E i \in promises, outcome \in ExecOutcomes :
          /\ promises' = promises \ {i}
          /\ SetButton(OnWriteRejected(
                [Button EXCEPT !.invs[i].settled = "rejected"], i, outcome))
    /\ UNCHANGED <<envVars, pageVars, clickVars, highlightVars, modalVars,
                   searchVars,
                   hasClipboard, isSecureContext>>

RevertFlag(cb) == IF cb = "revertCopied" THEN "copied" ELSE "error"

\* the callbacks given to setTimeout(..., 2000)
Revert(st, t) ==
    [st EXCEPT !.label = "Copy",
               !.classList = @ \ {RevertFlag(t.cb)},
               !.timers = @ \ {t},
               !.invs[t.inv].reverts = @ + 1]

FireRevertTimer ==
    /\ Due(timers) # {}
    /\ NextDue(timers).cb \in {"revertCopied", "revertError"}
    /\ SetButton(Revert(Button, NextDue(timers)))
    /\ UNCHANGED <<envVars, pageVars, clickVars, highlightVars, modalVars,
                   searchVars,
                   hasClipboard, isSecureContext, promises>>

CopyTime ==
    /\ Due(timers) = {}
    /\ timers # {}
    /\ timers' = Advance(timers, CopyTick)
    /\ invs' = [i \in 1..Len(invs) |->
                  IF invs[i].signals > 0 /\ invs[i].reverts = 0
                  THEN [invs[i] EXCEPT
                          !.since = Min(RevertDelay, @ + Elapse(timers, CopyTick))]
                  ELSE invs[i]]
    /\ UNCHANGED <<envVars, pageVars, clickVars, highlightVars, modalVars,
                   searchVars,
                   hasClipboard, isSecureContext, label, classList,
                   textAreas, promises, lastSignal, nextTimerId>>

----------------------------------------------------------------------------
(* Page initialisation: the DOMContentLoaded handler, language detection,   *)
(* the reading-progress bar and the back-to-top button                      *)

Shebang == <<"#", "!", "/", "b", "i", "n", "/", "b", "a", "s", "h">>
EchoCmd == <<"e", "c", "h", "o", " ">>
MkdirCmd == <<"m", "k", "d", "i", "r", " ">>
CdCmd == <<"c", "d", " ">>
LsCmd == <<"l", "s", " ">>
GitCmd == <<"g", "i", "t", " ">>
ClaudeCmd == <<"c", "l", "a", "u", "d", "e", " ">>
OpenBrace == <<"{">>
CloseBrace == <<"}">>
HooksKey == <<"\"", "h", "o", "o", "k", "s", "\"">>
PreToolUseKey ==
    <<"\"", "P", "r", "e", "T", "o", "o", "l", "U", "s", "e", "\"">>
MatcherKey == <<"\"", "m", "a", "t", "c", "h", "e", "r", "\"">>
FrontMatterName == <<"-", "-", "-", "\n", "n", "a", "m", "e", ":">>
DescriptionKey ==
    <<"d", "e", "s", "c", "r", "i", "p", "t", "i", "o", "n", ":">>
FunctionKw == <<"f", "u", "n", "c", "t", "i", "o", "n">>
ConstKw == <<"c", "o", "n", "s", "t", " ">>
LetKw == <<"l", "e", "t", " ">>
DefKw == <<"d", "e", "f", " ">>
ImportKw == <<"i", "m", "p", "o", "r", "t", " ">>
PythonWord == <<"p", "y", "t", "h", "o", "n">>

ShellMarkers == {Shebang, EchoCmd, MkdirCmd, CdCmd, LsCmd, GitCmd, ClaudeCmd}
JsonKeys == {HooksKey, PreToolUseKey, MatcherKey}
FrontMatterMarkers == {FrontMatterName, DescriptionKey}
JavaScriptMarkers == {FunctionKw, ConstKw, LetKw}
PythonMarkers == {DefKw, ImportKw, PythonWord}

IncludesAny(code, markers) == \E m \in markers : Includes(code, m)

IsShell(code) == IncludesAny(code, ShellMarkers)
IsJson(code) ==
    /\ Includes(code, OpenBrace)
    /\ Includes(code, CloseBrace)
    /\ IncludesAny(code, JsonKeys)
IsFrontMatter(code) == IncludesAny(code, FrontMatterMarkers)
IsJavaScript(code) == IncludesAny(code, JavaScriptMarkers)
IsPython(code) == IncludesAny(code, PythonMarkers)

\* a detector that looks for JSON before the shell commands
DetectLanguageJsonFirst(code) ==
    IF IsJson(code) THEN "json"
    ELSE IF IsShell(code) THEN "bash"
    ELSE IF IsFrontMatter(code) THEN "markdown"
    ELSE IF IsJavaScript(code) THEN "javascript"
    ELSE IF IsPython(code) THEN "python"
    ELSE "bash"

DetectLanguage(code) ==
    IF IsShell(code) THEN "bash"
    ELSE IF IsJson(code) THEN "json"
    ELSE IF IsFrontMatter(code) THEN "markdown"
    ELSE IF IsJavaScript(code) THEN "javascript"
    ELSE IF IsPython(code) THEN "python"
    ELSE "bash"

\* JavaScript numbers as they arise here: NaN, Infinity, or an exact
\* non-negative fraction in lowest terms
RECURSIVE Gcd(_, _)
Gcd(a, b) == IF b = 0 THEN a ELSE Gcd(b, a % b)

NaN == [kind |-> "nan"]
Infinity == [kind |-> "inf"]
Num(n, d) == [kind |-> "num", num |-> n \div Gcd(n, d), den |-> d \div Gcd(n, d)]

\* a / b for non-negative integers
Divide(a, b) ==
    IF b = 0 THEN (IF a = 0 THEN NaN ELSE Infinity) ELSE Num(a, b)

\* x * k for a positive integer k
Times(x, k) == IF x.kind = "num" THEN Num(x.num * k, x.den) ELSE x

\* Math.min(x, k) for an integer k
MathMin(x, k) ==
    IF x.kind = "nan" THEN NaN
    ELSE IF x.kind = "inf" THEN Num(k, 1)
    ELSE IF x.num <= k * x.den THEN x ELSE Num(k, 1)

Unset == [kind |-> "unset"]

\* style.width = x + '%': the declaration keeps its value when the text
\* assigned is not a percentage ('NaN%')
SetWidth(old, x) == IF x.kind = "num" THEN x ELSE old

UpdateReadingProgress(winScroll, height, old) ==
    LET scrolled == Times(Divide(winScroll, height), FullPercent)
    IN SetWidth(old, MathMin(scrolled, FullPercent))

\* a listener that shows the button from the threshold on
BackToTopListenerFrom(pageYOffset) ==
    IF pageYOffset >= BackToTopThreshold THEN "block" ELSE "none"

\* the scroll listener of the back-to-top button
BackToTopListener(pageYOffset) ==
    IF pageYOffset > BackToTopThreshold THEN "block" ELSE "none"

Features ==
    {"codeBlocks", "progress", "backToTop", "search", "outsideClick",
     "feedback"}

Throw(st) == [st EXCEPT !.error = TRUE]

\* a step of the handler runs unless an earlier one raised
Then(st, next) == IF st.error THEN st ELSE next

MermaidInitialize(st, env) == IF env.mermaid THEN st ELSE Throw(st)

InitializeCodeBlocks(st, env) ==
    [st EXCEPT !.language = DetectLanguage(env.code),
               !.wired = @ \cup {"codeBlocks"},
               !.highlighted = env.prism]

InitializeReadingProgress(st, env) ==
    IF ~env.progressBar THEN st
    ELSE [st EXCEPT !.wired = @ \cup {"progress"},
                    !.width = UpdateReadingProgress(env.scrollTop,
                                                    env.scrollable, @)]

InitializeBackToTop(st, env) ==
    IF env.backToTop THEN [st EXCEPT !.wired = @ \cup {"backToTop"}] ELSE st

\* searchInput.addEventListener on a null searchInput raises a TypeError
InitializeSearch(st, env) ==
    IF env.searchInput THEN [st EXCEPT !.wired = @ \cup {"search"}]
    ELSE Throw(st)

InitializeOutsideClick(st, env) ==
    [st EXCEPT !.wired = @ \cup {"outsideClick"}]

InitializeFeedback(st, env) == [st EXCEPT !.wired = @ \cup {"feedback"}]

PageStart ==
    [error |-> FALSE, wired |-> {}, language |-> "", highlighted |-> FALSE,
     width |-> Unset]

\* the DOMContentLoaded handler, statement by statement
InitializeApp(env) ==
    LET s1 == MermaidInitialize(PageStart, env)
        s2 == Then(s1, InitializeCodeBlocks(s1, env))
        s3 == Then(s2, InitializeReadingProgress(s2, env))
        s4 == Then(s3, InitializeBackToTop(s3, env))
        s5 == Then(s4, InitializeSearch(s4, env))
        s6 == Then(s5, InitializeOutsideClick(s5, env))
    IN Then(s6, InitializeFeedback(s6, env))

Environment ==
    [mermaid |-> hasMermaid, prism |-> hasPrism, progressBar |-> hasProgressBar,
     backToTop |-> hasBackToTop, searchInput |-> hasSearchInput,
     scrollable |-> scrollable, scrollTop |-> scrollTop, code |-> codeText]

Load ==
    /\ ~loaded
    /\ loaded' = TRUE
    /\ LET st == InitializeApp(Environment)
       IN /\ initError' = st.error
          /\ wired' = st.wired
          /\ language' = st.language
          /\ highlighted' = st.highlighted
          /\ progressWidth' = st.width
    /\ UNCHANGED <<scrollTop, backToTopDisplay, scrollEvents>>
    /\ UNCHANGED <<searchVars, copyVars, timerVars, envVars, clickVars,
                   highlightVars, modalVars>>

\* a scroll event at offset o: every registered scroll listener runs
Scroll(o) ==
    /\ loaded
    /\ scrollEvents < MaxScrolls
    /\ scrollEvents' = scrollEvents + 1
    /\ scrollTop' = o
    /\ progressWidth' = IF "progress" \in wired
                        THEN UpdateReadingProgress(o, scrollable, progressWidth)
                        ELSE progressWidth
    /\ backToTopDisplay' = IF "backToTop" \in wired
                           THEN BackToTopListener(o)
                           ELSE backToTopDisplay
    /\ UNCHANGED <<loaded, initError, wired, language, highlighted>>
    /\ UNCHANGED <<searchVars, copyVars, timerVars, envVars, clickVars,
                   highlightVars, modalVars>>

----------------------------------------------------------------------------
(* Highlighting: highlightText and escapeRegExp.  A pattern source is      *)
(* compiled to a sequence of atoms; the output is the text with the two    *)
(* marker tokens inserted.                                                 *)

NotRun == [kind |-> "notrun"]

MetaChars ==
    {".", "*", "+", "?", "^", "$", "{", "}", "(", ")", "|", "[", "]", "\\"}

\* a function that escapes nothing
RECURSIVE EscapeRegExpNone(_)
EscapeRegExpNone(string) ==
    IF string = <<>> THEN <<>>
    ELSE <<Head(string)>> \o EscapeRegExpNone(Tail(string))

\* string.replace(/[.*+?^${}()|[\]\\]/g, '\\$&')
RECURSIVE EscapeRegExp(_)
EscapeRegExp(string) ==
    IF string = <<>> THEN <<>>
    ELSE (IF Head(string) \in MetaChars THEN <<"\\", Head(string)>>
          ELSE <<Head(string)>>) \o EscapeRegExp(Tail(string))

OpenMark == "<span class=\"search-highlight\">"
CloseMark == "</span>"

\* new RegExp(source, 'gi') for sources made of literals, escaped
\* characters, '.', and groups: the atoms to match in sequence, or a
\* SyntaxError for an unbalanced group or a trailing backslash
RECURSIVE CompileFrom(_, _, _)
CompileFrom(source, depth, atoms) ==
    IF source = <<>>
    THEN [error |-> depth # 0, atoms |-> atoms]
    ELSE LET c == Head(source)
         IN IF c = "\\"
            THEN IF Len(source) = 1 THEN [error |-> TRUE, atoms |-> atoms]
                 ELSE CompileFrom(Tail(Tail(source)), depth,
                                  Append(atoms, [kind |-> "lit", c |-> source[2]]))
            ELSE IF c = "(" THEN CompileFrom(Tail(source), depth + 1, atoms)
            ELSE IF c = ")"
            THEN IF depth = 0 THEN [error |-> TRUE, atoms |-> atoms]
                 ELSE CompileFrom(Tail(source), depth - 1, atoms)
            ELSE IF c = "."
            THEN CompileFrom(Tail(source), depth, Append(atoms, [kind |-> "any"]))
            ELSE CompileFrom(Tail(source), depth,
                             Append(atoms, [kind |-> "lit", c |-> c]))

NewRegExp(source) == CompileFrom(source, 0, <<>>)

\* one atom against one character, under the 'i' flag
AtomMatches(atom, c) ==
    IF atom.kind = "any" THEN c # "\n"
    ELSE LowerChar(atom.c) = LowerChar(c)

MatchesAt(text, atoms, i) ==
    /\ i + Len(atoms) - 1 <= Len(text)
    /\ \A k \in 1..Len(atoms) : AtomMatches(atoms[k], text[i + k - 1])

\* text.replace(regex, '<span class="search-highlight">$1</span>') under the
\* 'g' flag: leftmost matches, each search resuming after the last match
RECURSIVE ReplaceFrom(_, _, _)
ReplaceFrom(text, atoms, i) ==
    IF i > Len(text) THEN <<>>
    ELSE IF atoms # <<>> /\ MatchesAt(text, atoms, i)
    THEN <<OpenMark>> \o SubSeq(text, i, i + Len(atoms) - 1) \o <<CloseMark>>
            \o ReplaceFrom(text, atoms, i + Len(atoms))
    ELSE <<text[i]>> \o ReplaceFrom(text, atoms, i + 1)

HighlightText(text, query) ==
    IF query = <<>> THEN [kind |-> "html", html |-> text]
    ELSE LET regex == NewRegExp(<<"(">> \o EscapeRegExp(query) \o <<")">>)
         IN IF regex.error THEN [kind |-> "throw"]
            ELSE [kind |-> "html", html |-> ReplaceFrom(text, regex.atoms, 1)]

RunHighlight ==
    /\ hlOut = NotRun
    /\ hlOut' = HighlightText(hlText, hlQuery)
    /\ UNCHANGED <<hlText, hlQuery>>
    /\ UNCHANGED <<searchVars, copyVars, timerVars, envVars, pageVars,
                   clickVars, modalVars>>

----------------------------------------------------------------------------
(* Feedback modal: open, close with its delayed reset, and the simulated   *)
(* submission                                                              *)

ModalTick == ResetDelay \div TicksPerReset

NeverOpened == [kind |-> "never"]

\* feedbackBtn 'click' listener; the overlay covers the button while open
OpenModal ==
    /\ modalOps < MaxModalOps
    /\ ~modalActive
    /\ modalActive' = TRUE
    /\ timers' = SetTimeout(timers, nextTimerId, "focusFirst", FocusDelay, 0)
    /\ nextTimerId' = nextTimerId + 1
    /\ opened' = [kind |-> "opened", form |-> formDisplay,
                  success |-> successDisplay, afterReset |-> resetRan]
    /\ modalOps' = modalOps + 1
    /\ UNCHANGED <<formDisplay, successDisplay, submitDisabled, resetRan>>
    /\ UNCHANGED <<searchVars, copyVars, envVars, pageVars, clickVars,
                   highlightVars>>

\* closeFeedbackModal, reached from the X, Cancel and Close buttons, a click
\* on the backdrop, and Escape while the modal is active
CloseModal ==
    /\ modalOps < MaxModalOps
    /\ modalActive
    /\ modalActive' = FALSE
    /\ timers' = SetTimeout(timers, nextTimerId, "resetForm", ResetDelay, 0)
    /\ nextTimerId' = nextTimerId + 1
    /\ resetRan' = FALSE
    /\ modalOps' = modalOps + 1
    /\ UNCHANGED <<formDisplay, successDisplay, submitDisabled, opened>>
    /\ UNCHANGED <<searchVars, copyVars, envVars, pageVars, clickVars,
                   highlightVars>>

\* feedbackForm 'submit' listener; the user can submit a visible form whose
\* submit button is enabled
SubmitForm ==
    /\ modalOps < MaxModalOps
    /\ modalActive
    /\ formDisplay # "none"
    /\ ~submitDisabled
    /\ submitDisabled' = TRUE
    /\ timers' = SetTimeout(timers, nextTimerId, "showSuccess", SendDelay, 0)
    /\ nextTimerId' = nextTimerId + 1
    /\ modalOps' = modalOps + 1
    /\ UNCHANGED <<modalActive, formDisplay, successDisplay, resetRan, opened>>
    /\ UNCHANGED <<searchVars, copyVars, envVars, pageVars, clickVars,
                   highlightVars>>

ModalCallbacks == {"focusFirst", "resetForm", "showSuccess"}

\* the callback of the next due timer of the modal
FireModalTimer ==
    /\ Due(timers) # {}
    /\ NextDue(timers).cb \in ModalCallbacks
    /\ timers' = timers \ {NextDue(timers)}
    /\ LET cb == NextDue(timers).cb
       IN /\ formDisplay' = IF cb = "resetForm" THEN "block"
                            ELSE IF cb = "showSuccess" THEN "none"
                            ELSE formDisplay
          /\ successDisplay' = IF cb = "resetForm" THEN "none"
                               ELSE IF cb = "showSuccess" THEN "block"
                               ELSE successDisplay
          /\ submitDisabled' = IF cb = "showSuccess" THEN FALSE
                               ELSE submitDisabled
          /\ resetRan' = IF cb = "resetForm"
                         THEN ~\E t \in timers' : t.cb = "resetForm"
                         ELSE resetRan
    /\ UNCHANGED <<modalActive, opened, modalOps, nextTimerId>>
    /\ UNCHANGED <<searchVars, copyVars, envVars, pageVars, clickVars,
                   highlightVars>>

ModalTime ==
    /\ Due(timers) = {}
    /\ timers # {}
    /\ timers' = Advance(timers, ModalTick)
    /\ UNCHANGED <<nextTimerId, modalVars>>
    /\ UNCHANGED <<searchVars, copyVars, envVars, pageVars, clickVars,
                   highlightVars>>

----------------------------------------------------------------------------
(* Inputs *)

MatchText == <<"A", "b">>
OtherText == <<"x">>

Inputs ==
    {<<>>, <<"a">>, <<"a", " ">>, <<"a", "b">>, <<" ", "A", "B">>,
     <<"x", "a">>, <<"b", "a">>}

ContainerTags == {"li", "div"}

NodeShapes ==
    {<<[tag |-> "h2", id |-> "s1"], MatchText>>,
     <<[tag |-> "h2", id |-> "s1"], OtherText>>,
     <<[tag |-> "h2", id |-> "s2"], MatchText>>,
     <<[tag |-> "h3", id |-> ""], MatchText>>,
     <<[tag |-> "p", id |-> ""], MatchText>>,
     <<[tag |-> "li", id |-> ""], OtherText>>,
     <<[tag |-> "div", id |-> ""], <<>>>>}

Node(shape, parent) ==
    [tag |-> shape[1].tag, id |-> shape[1].id, text |-> shape[2],
     parent |-> parent]

RECURSIVE Chain(_, _)
Chain(d, i) == IF i = 0 THEN {} ELSE {i} \cup Chain(d, d[i].parent)

\* where the next node in document order can be attached
ParentChoices(d) ==
    {0} \cup {j \in Chain(d, Len(d)) : d[j].tag \in ContainerTags}

RECURSIVE CorporaOfLen(_)
CorporaOfLen(n) ==
    IF n = 0 THEN {<<>>}
    ELSE UNION {{Append(d, Node(shape, p)) :
                    shape \in NodeShapes, p \in ParentChoices(d)} :
                d \in CorporaOfLen(n - 1)}

Corpora == UNION {CorporaOfLen(n) : n \in 0..MaxNodes}

H2(id, text) == Node(<<[tag |-> "h2", id |-> id], text>>, 0)
P(text, parent) == Node(<<[tag |-> "p", id |-> ""], text>>, parent)
Li(text, parent) == Node(<<[tag |-> "li", id |-> ""], text>>, parent)

\* scroll offsets and scrollable heights (scrollHeight - clientHeight)
Offsets == {0, 300, 301, 600, 2400}
Heights == {0, 1200}

EchoHooks ==
    <<"e", "c", "h", "o", " ", "'", "{", "\"", "h", "o", "o", "k", "s", "\"",
      ":", " ", "{", "}", "}", "'">>

\* pieces of code text; a code block is a concatenation of a few of them
Chunks ==
    {<<"e", "c", "h", "o">>, <<" ">>, OpenBrace, CloseBrace, HooksKey,
     DescriptionKey, FunctionKw, <<"d", "e", "f">>, PythonWord, <<"x">>}

RECURSIVE CodesOfLen(_)
CodesOfLen(n) ==
    IF n = 0 THEN {<<>>}
    ELSE {c \o k : c \in CodesOfLen(n - 1), k \in Chunks}

Codes ==
    UNION {CodesOfLen(n) : n \in 0..MaxChunks}
        \cup ShellMarkers \cup JsonKeys \cup FrontMatterMarkers
        \cup JavaScriptMarkers \cup PythonMarkers \cup {EchoHooks}

SectionIds == <<"s1", "s2", "s3", "s4", "s5", "s6", "s7", "s8">>

\* a section of the page: a heading that matches, a heading with a matching
\* paragraph, or both
SectionBlocks(id) ==
    {<<H2(id, MatchText)>>,
     <<H2(id, OtherText), P(MatchText, 0)>>,
     <<H2(id, MatchText), P(MatchText, 0)>>}

RECURSIVE PagesOfLen(_)
PagesOfLen(n) ==
    IF n = 0 THEN {<<>>, <<P(MatchText, 0)>>}
    ELSE {d \o b : d \in PagesOfLen(n - 1), b \in SectionBlocks(SectionIds[n])}

LongCorpora == UNION {PagesOfLen(n) : n \in 0..MaxSections}

DisplayInputs == {<<"A", "B">>, <<"a", "b", " ">>, <<"b", "a">>}

\* texts with inner spaces, and every short query over their characters
SpacedTexts ==
    {<<"A", " ", "b">>, <<"A", "b", " ", "a">>, <<"b", " ", " ", "A", "B">>}

SpacedCorpora ==
    UNION {{<<P(t, 0)>>,
            <<H2("s1", t)>>,
            <<H2("s1", OtherText), Li(t, 0)>>,
            <<Node(<<[tag |-> "li", id |-> ""], <<>>>>, 0), P(t, 1)>>} :
           t \in SpacedTexts}

QueryChars == {"a", "A", "b", " "}

Queries == UNION {[1..n -> QueryChars] : n \in 1..MaxQueryLen}

TextChars == {"a", "A", "b", "."}
PatternChars == {"a", "A", ".", "("}

Texts == UNION {[1..n -> TextChars] : n \in 0..MaxTextLen}
Patterns == UNION {[1..n -> PatternChars] : n \in 0..MaxPatternLen}

\* a paragraph whose only occurrence of the search term follows n other
\* characters, up to and beyond the snippet limit
LongText(n) == [i \in 1..n |-> "x"] \o MatchText

LongTextCorpora ==
    {<<H2("s1", OtherText), P(LongText(n), 0)>> :
        n \in 0..(SnippetLimit + MaxOverrun)}

SampleCorpora ==
    {<<>>,
     <<H2("s1", OtherText), P(MatchText, 0), P(MatchText, 0)>>,
     <<P(MatchText, 0), H2("s1", MatchText), Li(OtherText, 0),
       P(MatchText, 3), H2("s2", OtherText), P(MatchText, 0)>>}

----------------------------------------------------------------------------
(* Specifications *)

InitSearchState ==
    /\ searchTimeout = 0
    /\ searchResults = EmptyArea
    /\ lastQuery = <<>>
    /\ results = <<>>
    /\ uniqueResults = <<>>
    /\ inputCount = 0
    /\ sinceInput = 0
    /\ execsSinceInput = 0
    /\ searchRuns = 0

InitCopyState ==
    /\ label = "Copy"
    /\ classList = {}
    /\ textAreas = 0
    /\ promises = {}
    /\ invs = <<>>
    /\ lastSignal = 0

InitTimers ==
    /\ timers = {}
    /\ nextTimerId = 1

FullEnvironment ==
    [mermaid |-> TRUE, prism |-> TRUE, progressBar |-> TRUE,
     backToTop |-> TRUE, searchInput |-> TRUE, scrollable |-> 1200,
     scrollTop |-> 0, code |-> EchoHooks]

\* the page with every element and library present, after DOMContentLoaded
InitPageLoaded ==
    /\ hasMermaid = TRUE
    /\ hasPrism = TRUE
    /\ hasProgressBar = TRUE
    /\ hasBackToTop = TRUE
    /\ hasSearchInput = TRUE
    /\ scrollable = FullEnvironment.scrollable
    /\ codeText = FullEnvironment.code
    /\ scrollTop = FullEnvironment.scrollTop
    /\ loaded = TRUE
    /\ initError = InitializeApp(FullEnvironment).error
    /\ wired = InitializeApp(FullEnvironment).wired
    /\ language = InitializeApp(FullEnvironment).language
    /\ highlighted = InitializeApp(FullEnvironment).highlighted
    /\ progressWidth = InitializeApp(FullEnvironment).width
    /\ backToTopDisplay = ""
    /\ scrollEvents = 0

InitHighlightIdle ==
    /\ hlText = <<>>
    /\ hlQuery = <<>>
    /\ hlOut = NotRun

\* the feedback modal as the document declares it: closed, nothing sent
InitModal ==
    /\ modalActive = FALSE
    /\ formDisplay = ""
    /\ successDisplay = ""
    /\ submitDisabled = FALSE
    /\ resetRan = FALSE
    /\ opened = NeverOpened
    /\ modalOps = 0

InitClicks ==
    /\ lastClick = "none"
    /\ clickCount = 0

\* the page after DOMContentLoaded; the user types, clicks and waits
Init ==
    /\ dom \in SampleCorpora
    /\ inputValue = <<>>
    /\ InitSearchState
    /\ InitCopyState
    /\ InitTimers
    /\ InitPageLoaded
    /\ InitClicks
    /\ InitHighlightIdle
    /\ InitModal
    /\ hasClipboard = TRUE
    /\ isSecureContext = TRUE

Next ==
    \/ \E v \in Inputs : InputEvent(v)
    \/ FireSearchTimer
    \/ \E outside \in BOOLEAN : ClickDocument(outside)
    \/ SearchTime

Spec == Init /\ [][Next]_vars

\* a due timer leaves the timer table: its callback is run
DueTimerRuns ==
    /\ Due(timers) # {}
    /\ timers' = timers \ {NextDue(timers)}

\* the event loop runs due timers and time does not stop; within Next only
\* FireSearchTimer is a DueTimerRuns step
FairSpec == Spec /\ WF_vars(SearchTime) /\ WF_timers(DueTimerRuns)

\* one copy button, clicked repeatedly
InitCopy ==
    /\ dom = <<>>
    /\ inputValue = <<>>
    /\ InitSearchState
    /\ InitCopyState
    /\ InitTimers
    /\ InitPageLoaded
    /\ InitClicks
    /\ InitHighlightIdle
    /\ InitModal
    /\ hasClipboard \in BOOLEAN
    /\ isSecureContext \in BOOLEAN

NextCopy ==
    \/ ClickCopy
    \/ ClipboardResolve
    \/ ClipboardReject
    \/ FireRevertTimer
    \/ CopyTime

SpecCopy == InitCopy /\ [][NextCopy]_vars

\* performSearch applied once to every corpus and input value
InitDedup ==
    /\ dom \in Corpora
    /\ inputValue \in Inputs
    /\ InitSearchState
    /\ InitCopyState
    /\ InitTimers
    /\ InitPageLoaded
    /\ InitClicks
    /\ InitHighlightIdle
    /\ InitModal
    /\ hasClipboard = TRUE
    /\ isSecureContext = TRUE

RunSearch ==
    /\ searchRuns = 0
    /\ ApplySearch
    /\ UNCHANGED <<dom, inputValue, searchTimeout, inputCount, sinceInput,
                   copyVars, timerVars,
                   envVars, pageVars, clickVars, highlightVars,
                   modalVars>>

NextDedup == RunSearch

SpecDedup == InitDedup /\ [][NextDedup]_vars

\* performSearch applied once to pages of many sections
InitDisplay ==
    /\ dom \in LongCorpora
    /\ inputValue \in DisplayInputs
    /\ InitSearchState
    /\ InitCopyState
    /\ InitTimers
    /\ InitPageLoaded
    /\ InitClicks
    /\ InitHighlightIdle
    /\ InitModal
    /\ hasClipboard = TRUE
    /\ isSecureContext = TRUE

NextDisplay == RunSearch

SpecDisplay == InitDisplay /\ [][NextDisplay]_vars

\* performSearch applied once for every query over texts with spaces
InitSubstring ==
    /\ dom \in SpacedCorpora
    /\ inputValue \in Queries
    /\ InitSearchState
    /\ InitCopyState
    /\ InitTimers
    /\ InitPageLoaded
    /\ InitClicks
    /\ InitHighlightIdle
    /\ InitModal
    /\ hasClipboard = TRUE
    /\ isSecureContext = TRUE

NextSubstring == RunSearch

SpecSubstring == InitSubstring /\ [][NextSubstring]_vars

\* highlightText applied once to every text and query
InitHighlight ==
    /\ dom = <<>>
    /\ inputValue = <<>>
    /\ InitSearchState
    /\ InitCopyState
    /\ InitTimers
    /\ InitPageLoaded
    /\ InitClicks
    /\ InitModal
    /\ hasClipboard = TRUE
    /\ isSecureContext = TRUE
    /\ hlText \in Texts
    /\ hlQuery \in Patterns
    /\ hlOut = NotRun

NextHighlight == RunHighlight

SpecHighlight == InitHighlight /\ [][NextHighlight]_vars

\* performSearch applied once to pages with one long paragraph
InitSnippet ==
    /\ dom \in LongTextCorpora
    /\ inputValue \in DisplayInputs
    /\ InitSearchState
    /\ InitCopyState
    /\ InitTimers
    /\ InitPageLoaded
    /\ InitClicks
    /\ InitHighlightIdle
    /\ InitModal
    /\ hasClipboard = TRUE
    /\ isSecureContext = TRUE

NextSnippet == RunSearch

SpecSnippet == InitSnippet /\ [][NextSnippet]_vars

\* the feedback modal: the user opens, submits, closes and waits
InitFeedback ==
    /\ dom = <<>>
    /\ inputValue = <<>>
    /\ InitSearchState
    /\ InitCopyState
    /\ InitTimers
    /\ InitPageLoaded
    /\ InitClicks
    /\ InitHighlightIdle
    /\ InitModal
    /\ hasClipboard = TRUE
    /\ isSecureContext = TRUE

NextFeedback ==
    \/ OpenModal
    \/ CloseModal
    \/ SubmitForm
    \/ FireModalTimer
    \/ ModalTime

SpecFeedback == InitFeedback /\ [][NextFeedback]_vars

\* the page before DOMContentLoaded, with any of its elements and libraries
\* missing; the handler runs and the user scrolls
InitIdle ==
    /\ dom = <<>>
    /\ inputValue = <<>>
    /\ InitSearchState
    /\ InitCopyState
    /\ InitTimers
    /\ InitClicks
    /\ InitHighlightIdle
    /\ InitModal
    /\ hasClipboard = TRUE
    /\ isSecureContext = TRUE

InitUnloaded ==
    /\ loaded = FALSE
    /\ initError = FALSE
    /\ wired = {}
    /\ language = ""
    /\ highlighted = FALSE
    /\ progressWidth = Unset
    /\ backToTopDisplay = ""
    /\ scrollEvents = 0

InitPage ==
    /\ InitIdle
    /\ InitUnloaded
    /\ hasMermaid \in BOOLEAN
    /\ hasPrism \in BOOLEAN
    /\ hasProgressBar \in BOOLEAN
    /\ hasBackToTop \in BOOLEAN
    /\ hasSearchInput \in BOOLEAN
    /\ scrollable \in Heights
    /\ scrollTop \in Offsets
    /\ codeText = EchoHooks

NextPage ==
    \/ Load
    \/ \E o \in Offsets : Scroll(o)

SpecPage == InitPage /\ [][NextPage]_vars

\* initializeCodeBlocks over every code text
InitDetect ==
    /\ InitIdle
    /\ InitUnloaded
    /\ hasMermaid = TRUE
    /\ hasPrism = TRUE
    /\ hasProgressBar = TRUE
    /\ hasBackToTop = TRUE
    /\ hasSearchInput = TRUE
    /\ scrollable = FullEnvironment.scrollable
    /\ scrollTop = FullEnvironment.scrollTop
    /\ codeText \in Codes

NextDetect == Load

SpecDetect == InitDetect /\ [][NextDetect]_vars

----------------------------------------------------------------------------
(* Properties *)

PendingSearches == {t \in timers : t.cb = "performSearch"}
PendingReverts == {t \in timers : t.cb \in {"revertCopied", "revertError"}}
Invocations == 1..Len(invs)
FlagOf(text) == IF text = "Copied!" THEN "copied" ELSE "error"

C1_OnePending ==
    /\ Cardinality(PendingSearches) <= 1
    /\ \A t \in PendingSearches :
          /\ t.id = searchTimeout
          /\ t.rem = DebounceDelay - sinceInput
    /\ execsSinceInput <= 1

C1_InputStep ==
    inputCount' # inputCount =>
        /\ searchResults' = searchResults
        /\ Cardinality({t \in timers' : t.cb = "performSearch"}) = 1
        /\ \A t \in timers' : t.cb = "performSearch" => t.rem = DebounceDelay

C1_SearchStep ==
    searchRuns' # searchRuns =>
        /\ inputCount > 0
        /\ sinceInput >= DebounceDelay
        /\ execsSinceInput = 0

\* C1: at most one deferred search is pending; an input event cancels the
\* pending one, schedules a new one 300 ms later and leaves the result area
\* alone; a search runs only 300 ms after the most recent input event, and
\* at most once per burst of input events.
C1_Debounce ==
    /\ [](C1_OnePending)
    /\ [][C1_InputStep /\ C1_SearchStep]_vars

\* three input events in a row, then the single search they cause
C1_Witness ==
    /\ inputCount = 3
    /\ searchRuns = 1
    /\ execsSinceInput = 1
    /\ searchResults.kind = "found"

C2_Settled ==
    /\ PendingSearches = {}
    /\ lastQuery = Normalize(inputValue)
    /\ Len(lastQuery) < MinQueryLength => searchResults = EmptyArea
    /\ Len(lastQuery) >= MinQueryLength =>
          /\ searchResults.kind \in {"found", "noresults"}
          /\ searchResults.kind = "found" <=> Len(results) > 0
          /\ \A k \in 1..Len(results) :
                Includes(ToLowerCase(TextContent(dom, results[k].element)),
                         lastQuery)

\* C2: once input events stop the deferred search fires on the value the
\* input has then, and the result area stays at the outcome for that value:
\* results for a query of at least 2 characters, empty for a shorter one.
C2_Settles == <>[]C2_Settled

\* a second search has replaced the outcome of an earlier value
C2_Witness ==
    /\ searchRuns = 2
    /\ inputCount = 3
    /\ C2_Settled
    /\ searchResults.kind = "found"

\* C3: a search that fires on a normalized query of fewer than 2 characters
\* clears the result area: no match record, no 'no results' message.
C3_ShortQueryClears ==
    [][(searchRuns' # searchRuns
        /\ Len(Trim(ToLowerCase(inputValue))) < MinQueryLength)
       => (searchResults' = EmptyArea /\ results' = <<>>)]_vars

\* a one-character query (after trimming) has been searched for
C3_Witness ==
    /\ searchRuns >= 2
    /\ execsSinceInput = 1
    /\ Len(inputValue) = 2
    /\ Len(lastQuery) = 1
    /\ searchResults = EmptyArea

\* C4: in the fallback path the control shows 'Failed' when the copy command
\* throws or returns false, and 'Copied!' only when it returns true.
C4_FallbackFeedback ==
    \A i \in Invocations :
        invs[i].exec # "none" =>
            /\ invs[i].exec \in {"false", "throw"} => invs[i].signal = "Failed"
            /\ invs[i].signal = "Copied!" => invs[i].exec = "true"

\* the feedback signalled last is on display until 2000 ms have passed
C5_FullDisplay ==
    (lastSignal # 0 /\ invs[lastSignal].since < RevertDelay) =>
        /\ label = invs[lastSignal].signal
        /\ FlagOf(invs[lastSignal].signal) \in classList

\* C5: each invocation owns the control's revert timer: at most one revert
\* is pending, and the most recent feedback stays displayed for its full
\* 2000 ms.
C5_OwnsRevertTimer ==
    /\ Cardinality(PendingReverts) <= 1
    /\ C5_FullDisplay

C6_OneSignalOneRevert ==
    \A i \in Invocations :
        LET v == invs[i]
            mine == {t \in timers : t.inv = i}
        IN /\ v.signals <= 1
           /\ v.reverts <= v.signals
           /\ i \notin promises => v.signals = 1
           /\ v.signals = 0 => mine = {}
           /\ (v.signals = 1 /\ v.reverts = 0) =>
                 /\ Cardinality(mine) = 1
                 /\ \A t \in mine :
                       /\ t.rem = RevertDelay - v.since
                       /\ RevertFlag(t.cb) = FlagOf(v.signal)
           /\ v.reverts = 1 => (mine = {} /\ v.since = RevertDelay)

C6_RevertStep ==
    \A i \in Invocations :
        invs'[i].reverts # invs[i].reverts =>
            /\ label' = "Copy"
            /\ FlagOf(invs[i].signal) \notin classList'

C6_Single ==
    Len(invs) = 1 =>
        IF invs[1].signals = 1 /\ invs[1].reverts = 0
        THEN label = invs[1].signal /\ classList = {FlagOf(invs[1].signal)}
        ELSE label = "Copy" /\ classList = {}

\* C6: every copy invocation gives exactly one feedback signal and exactly
\* one revert, 2000 ms after the signal, which sets the label to 'Copy' and
\* clears the flag; a single invocation shows Copy, its feedback, Copy.
C6_Feedback ==
    /\ [](C6_OneSignalOneRevert /\ C6_Single)
    /\ [][C6_RevertStep]_vars

\* the first invocation's promise settled after the second one's feedback,
\* and both reverts have run
C6_Witness ==
    /\ Len(invs) >= 2
    /\ invs[1].api
    /\ lastSignal = 1
    /\ invs[1].reverts = 1
    /\ invs[2].reverts = 1

\* C7: the async API is attempted exactly when it is available in a secure
\* context, otherwise the fallback runs directly; a rejection runs the
\* fallback, so 'Failed' is shown only after the copy command was attempted.
C7_FallbackBeforeFailed ==
    \A i \in Invocations :
        LET v == invs[i]
        IN /\ v.api <=> (hasClipboard /\ isSecureContext)
           /\ ~v.api => (v.settled = "none" /\ v.exec # "none")
           /\ v.api => (i \in promises <=> v.settled = "none")
           /\ v.settled = "rejected" => v.exec # "none"
           /\ v.settled = "resolved" => (v.exec = "none" /\ v.signal = "Copied!")
           /\ v.signal = "Failed" => v.exec # "none"

\* a rejected clipboard promise whose fallback command threw
C7_Witness ==
    \E i \in Invocations :
        /\ invs[i].settled = "rejected"
        /\ invs[i].exec = "throw"
        /\ invs[i].signal = "Failed"
        /\ label = "Failed"

\* C8: between event handlers the document holds no temporary text
\* container, whatever the copy command did.
C8_NoTextAreaLeft == textAreas = 0

\* fallback attempts have finished with each of the three outcomes
C8_Witness ==
    /\ textAreas = 0
    /\ {invs[i].exec : i \in Invocations} = ExecOutcomes

\* C9: matches whose heading is null are kept in the deduplicated list.
C9_NullHeadingKept ==
    \A k \in 1..Len(results) :
        results[k].heading = NoHeading =>
            \E m \in 1..Len(uniqueResults) :
                uniqueResults[m].element = results[k].element

FirstOfSection(k) ==
    \A j \in 1..(k - 1) : results[j].id # results[k].id

\* C10: no two records of the deduplicated list share a non-null sectionId,
\* and the record kept for a section is its first match in discovery order.
C10_DedupFirst ==
    /\ \A a, b \in 1..Len(uniqueResults) :
          (a # b /\ uniqueResults[a].id # Null) =>
              uniqueResults[a].id # uniqueResults[b].id
    /\ \A k \in 1..Len(results) :
          (results[k].id # Null /\ FirstOfSection(k)) =>
              \E m \in 1..Len(uniqueResults) : uniqueResults[m] = results[k]
    /\ \A m \in 1..Len(uniqueResults) :
          uniqueResults[m].id # Null =>
              \E k \in 1..Len(results) :
                  uniqueResults[m] = results[k] /\ FirstOfSection(k)

\* three matches in two sections: two records kept
C10_Witness ==
    /\ searchRuns = 1
    /\ Len(results) = 3
    /\ Len(uniqueResults) = 2
    /\ \E j, k \in 1..Len(results) : j # k /\ results[j].id = results[k].id

\* C11: for every corpus and query at most 5 records are displayed, and the
\* total in the header is at least the number of records displayed
C11_AtMostFive ==
    (searchRuns > 0 /\ searchResults.kind = "found")
        => /\ Len(searchResults.shown) <= 5
           /\ searchResults.total >= Len(searchResults.shown)

C11_Witness ==
    /\ searchRuns > 0
    /\ searchResults.kind = "found"
    /\ Len(uniqueResults) > 5
    /\ Len(searchResults.shown) = 5

\* C12: the N of the 'Found N results' header is the size of the
\* de-duplicated list before truncation, and the '(showing 5 of N)' suffix
\* appears exactly when that list has more than 5 records
\* (stated for searches whose matches all lie under a heading)
C12_HeaderCountsUnique ==
    (/\ searchRuns > 0
     /\ searchResults.kind = "found"
     /\ \A k \in 1..Len(results) : results[k].heading # NoHeading)
        => /\ searchResults.total = Len(uniqueResults)
           /\ searchResults.showing <=> Len(uniqueResults) > 5

Displayed ==
    IF searchResults.kind = "found" THEN Len(searchResults.shown) ELSE 0

\* C13: for a query of at least 2 characters the 'no results found' message
\* with the query is rendered exactly when no record is displayed
C13_NoResultsIffNothingShown ==
    (searchRuns > 0 /\ Len(lastQuery) >= 2)
        => ((searchResults.kind = "noresults"
                /\ searchResults.query = lastQuery)
            <=> Displayed = 0)

ContentNodes == {i \in 1..Len(dom) : dom[i].tag \in SearchableTags}
LowerText(i) == ToLowerCase(TextContent(dom, i))
Matched(i) == \E k \in 1..Len(results) : results[k].element = i

\* C14 as stated: every substring of a content node's lower-cased text of
\* length at least 2, given as the query in any letter case, yields a match
\* for that node
C14_SubstringFound ==
    searchRuns > 0
        => \A i \in ContentNodes :
              (/\ Len(inputValue) >= 2
               /\ Includes(LowerText(i), ToLowerCase(inputValue)))
                  => Matched(i)

\* C14, amended: every substring of a content node's lower-cased text whose
\* trimmed form has length at least 2, given as the query in any letter
\* case, yields a match for that node
C14_TrimmedSubstringFound ==
    searchRuns > 0
        => \A i \in ContentNodes :
              (/\ Len(Trim(inputValue)) >= 2
               /\ Includes(LowerText(i), ToLowerCase(inputValue)))
                  => Matched(i)

C14_Witness ==
    /\ searchRuns > 0
    /\ Trim(inputValue) # inputValue
    /\ ToLowerCase(inputValue) # inputValue
    /\ Len(Trim(inputValue)) >= 2
    /\ \E i \in ContentNodes :
          /\ Includes(LowerText(i), ToLowerCase(inputValue))
          /\ TextContent(dom, i) # LowerText(i)
          /\ Matched(i)

\* C15: when the progress bar, the search input or the back-to-top button is
\* absent, initialization completes without an exception, the features whose
\* elements are present are wired, and so is everything wired after them
\* (stated for a page whose diagram library is present)
C15_MissingElementsAreSoft ==
    (loaded /\ hasMermaid)
        => /\ ~initError
           /\ hasProgressBar => "progress" \in wired
           /\ hasBackToTop => "backToTop" \in wired
           /\ hasSearchInput => "search" \in wired
           /\ "feedback" \in wired

\* C16: an absent diagram or syntax-highlighting library does not prevent
\* the progress tracker, the back-to-top controller and the search input
\* from being initialized
C16_IndependentInit ==
    (loaded /\ (~hasMermaid \/ ~hasPrism))
        => /\ hasProgressBar => "progress" \in wired
           /\ hasBackToTop => "backToTop" \in wired
           /\ hasSearchInput => "search" \in wired

\* the width is the percentage pct of the offset in the scrollable height
IsPercentOf(width, offset, total) ==
    /\ width.kind = "num"
    /\ width.num * total = offset * 100 * width.den

IsPercent(width, pct) ==
    /\ width.kind = "num"
    /\ width.num = pct * width.den

\* C17: after every progress update the width is
\* clamp(offset / totalScrollable * 100, 0, 100) percent, and 0% whenever
\* totalScrollable <= 0
C17_ProgressClamped ==
    "progress" \in wired
        => IF scrollable <= 0 THEN IsPercent(progressWidth, 0)
           ELSE IF scrollTop >= scrollable THEN IsPercent(progressWidth, 100)
           ELSE IsPercentOf(progressWidth, scrollTop, scrollable)

\* C18: after every scroll event the back-to-top button is visible exactly
\* when the scroll offset is strictly greater than 300 (for a page whose
\* back-to-top listener is registered)
C18_BackToTopVisibility ==
    ("backToTop" \in wired /\ scrollEvents > 0)
        => /\ backToTopDisplay \in {"block", "none"}
           /\ backToTopDisplay = "block" <=> scrollTop > 300

C18_Witness ==
    /\ "backToTop" \in wired
    /\ scrollEvents > 1
    /\ scrollTop = 300
    /\ backToTopDisplay = "none"

RuleLanguages == <<"bash", "json", "markdown", "javascript", "python">>

RuleMatches(code) ==
    <<IsShell(code), IsJson(code), IsFrontMatter(code), IsJavaScript(code),
      IsPython(code)>>

MatchingRules(code) == {i \in 1..Len(RuleLanguages) : RuleMatches(code)[i]}

\* C19: detectLanguage returns the language of the first rule, in the order
\* shell, JSON, frontmatter, JavaScript, Python, whose pattern occurs in the
\* code, and 'bash' when none does; code with a shell marker is 'bash' even
\* when a later rule matches too
C19_FirstRuleWins ==
    loaded
        => /\ language = IF MatchingRules(codeText) = {} THEN "bash"
                         ELSE RuleLanguages[SetMin(MatchingRules(codeText))]
           /\ IsShell(codeText) => language = "bash"

C19_Witness ==
    /\ loaded
    /\ codeText = EchoHooks
    /\ IsJson(codeText)
    /\ language = "bash"

\* C20: a click outside the search container clears the result area exactly
\* when the trimmed input is empty; any other click leaves the area as it
\* was; no click changes the input value or the pending search timer
C20_ClickStep ==
    [][clickCount' # clickCount
          => /\ searchResults' =
                    IF lastClick' = "outside" /\ Trim(inputValue) = <<>>
                    THEN EmptyArea ELSE searchResults
             /\ inputValue' = inputValue
             /\ searchTimeout' = searchTimeout
             /\ timers' = timers]_vars

\* an outside click has cleared rendered results while the search for the
\* emptied input is still pending
C20_Witness ==
    /\ lastClick = "outside"
    /\ Trim(inputValue) = <<>>
    /\ results # <<>>
    /\ searchResults = EmptyArea
    /\ PendingSearches # {}

\* C21: displayed records appear in the document order of their source
\* nodes, and they are the first 5 of the de-duplicated list
C21_DocumentOrder ==
    (searchRuns > 0 /\ searchResults.kind = "found")
        => LET shown == searchResults.shown
           IN /\ \A j, k \in 1..Len(shown) :
                    j < k => shown[j].element < shown[k].element
              /\ Len(shown) = Min(5, Len(uniqueResults))
              /\ \A k \in 1..Len(shown) :
                    shown[k].element = uniqueResults[k].element

\* six or more sections match, some of them twice, and the sixth is cut
C21_Witness ==
    /\ searchRuns > 0
    /\ searchResults.kind = "found"
    /\ Len(results) > Len(uniqueResults)
    /\ Len(uniqueResults) > 5
    /\ searchResults.shown[5].element = uniqueResults[5].element
    /\ searchResults.shown[1].element < searchResults.shown[5].element

\* the output without its marker tokens
RECURSIVE StripMarks(_)
StripMarks(html) ==
    IF html = <<>> THEN <<>>
    ELSE IF Head(html) \in {OpenMark, CloseMark} THEN StripMarks(Tail(html))
    ELSE <<Head(html)>> \o StripMarks(Tail(html))

\* the output cut at its marker tokens: [marked, chars] pieces in order
RECURSIVE PiecesFrom(_, _, _, _)
PiecesFrom(html, marked, cur, acc) ==
    IF html = <<>> THEN Append(acc, [marked |-> marked, chars |-> cur])
    ELSE IF Head(html) = OpenMark
    THEN PiecesFrom(Tail(html), TRUE, <<>>,
                    Append(acc, [marked |-> marked, chars |-> cur]))
    ELSE IF Head(html) = CloseMark
    THEN PiecesFrom(Tail(html), FALSE, <<>>,
                    Append(acc, [marked |-> marked, chars |-> cur]))
    ELSE PiecesFrom(Tail(html), marked, Append(cur, Head(html)), acc)

Pieces(html) == PiecesFrom(html, FALSE, <<>>, <<>>)

\* the marker tokens alternate, starting with an opening one
RECURSIVE WellMarked(_, _)
WellMarked(html, open) ==
    IF html = <<>> THEN ~open
    ELSE IF Head(html) = OpenMark THEN ~open /\ WellMarked(Tail(html), TRUE)
    ELSE IF Head(html) = CloseMark THEN open /\ WellMarked(Tail(html), FALSE)
    ELSE WellMarked(Tail(html), open)

\* C22: highlight returns the text unchanged for the empty query; otherwise
\* it never throws, every marked piece is an occurrence of the query up to
\* letter case, no occurrence is left unmarked, and removing the markers
\* gives back the text
C22_LiteralHighlight ==
    hlOut # NotRun
        => /\ hlOut.kind = "html"
           /\ StripMarks(hlOut.html) = hlText
           /\ hlQuery = <<>> => hlOut.html = hlText
           /\ hlQuery # <<>> =>
                 /\ WellMarked(hlOut.html, FALSE)
                 /\ \A k \in 1..Len(Pieces(hlOut.html)) :
                       LET piece == Pieces(hlOut.html)[k]
                       IN IF piece.marked
                          THEN ToLowerCase(piece.chars) = ToLowerCase(hlQuery)
                          ELSE ~Includes(ToLowerCase(piece.chars),
                                         ToLowerCase(hlQuery))

\* a query with a metacharacter is found literally, casing preserved
C22_Witness ==
    /\ hlOut # NotRun
    /\ hlQuery = <<"a", ".">>
    /\ hlText = <<"A", ".", "b">>
    /\ hlOut.kind = "html"
    /\ hlOut.html = <<OpenMark, "A", ".", CloseMark, "b">>

IsLinkableHeading(i) == dom[i].tag \in HeadingTags /\ dom[i].id # ""

Last(S) == IF S = {} THEN NoHeading ELSE CHOOSE j \in S : \A k \in S : k <= j

\* the node itself, its ancestors, and the preceding siblings of all these
OnChain(i, j) ==
    \E a \in 1..i :
        /\ IsAncestorOrSelf(dom, a, i)
        /\ j = a \/ (j < a /\ dom[j].parent = dom[a].parent)

\* C23 as stated: the locator returns the nearest linkable heading that
\* precedes the node in document order, or the node itself when it is one,
\* and null only when there is none
C23_NearestPreceding ==
    \A i \in ContentNodes :
        FindParentHeading(dom, i) = Last({j \in 1..i : IsLinkableHeading(j)})

\* C23, amended: the locator returns the nearest linkable heading among the
\* node itself, its preceding siblings, its ancestors and their preceding
\* siblings, and null when there is none among them
C23_NearestOnChain ==
    /\ \A i \in ContentNodes :
          FindParentHeading(dom, i)
              = Last({j \in 1..i : IsLinkableHeading(j) /\ OnChain(i, j)})
    /\ \A k \in 1..Len(results) :
          results[k].heading
              = Last({j \in 1..results[k].element :
                         IsLinkableHeading(j) /\ OnChain(results[k].element, j)})

\* a match whose nearest preceding heading sits inside a preceding sibling
\* and is passed over
C23_Witness ==
    /\ searchRuns > 0
    /\ \E k \in 1..Len(results) :
          LET i == results[k].element
              near == Last({j \in 1..i : IsLinkableHeading(j)})
          IN /\ near # NoHeading
             /\ ~OnChain(i, near)
             /\ results[k].heading # near

\* C24: the progress indicator is written during initialization and on every
\* scroll event, so whenever the tracker is wired its width has been written
\* and corresponds to the most recent offset and scrollable height
C24_ProgressFresh ==
    "progress" \in wired
        => /\ progressWidth # Unset
           /\ scrollable > 0 =>
                 IF scrollTop >= scrollable THEN IsPercent(progressWidth, 100)
                 ELSE IsPercentOf(progressWidth, scrollTop, scrollable)

\* C25: right after initialization, before any scroll event, the back-to-top
\* button is explicitly hidden when the offset is at most 300
C25_HiddenAtStart ==
    ("backToTop" \in wired /\ scrollEvents = 0 /\ scrollTop <= 300)
        => backToTopDisplay = "none"

\* C26: the snippet of every displayed record contains at least one
\* occurrence of the query for the highlighter to mark
C26_SnippetHighlighted ==
    (searchRuns > 0 /\ searchResults.kind = "found")
        => \A k \in 1..Len(searchResults.shown) :
              Includes(ToLowerCase(searchResults.shown[k].snippet), lastQuery)

\* C27: in every state the label and the style flags of the copy button
\* agree: 'Copied!' only with the copied flag alone, 'Failed' only with the
\* error flag alone, 'Copy' only with neither
C27_LabelMatchesFlags ==
    /\ label = "Copied!" => classList = {"copied"}
    /\ label = "Failed" => classList = {"error"}
    /\ label = "Copy" => classList = {}

\* C28: every displayed result links to the id of a heading that exists in
\* the content; no link targets a null or empty anchor
C28_LinksToHeading ==
    (searchRuns > 0 /\ searchResults.kind = "found")
        => \A k \in 1..Len(searchResults.shown) :
              LET href == searchResults.shown[k].href
              IN /\ href # Null
                 /\ href # ""
                 /\ \E j \in 1..Len(dom) :
                       dom[j].tag \in HeadingTags /\ dom[j].id = href

\* a matching heading without an id is displayed under the link of the
\* heading with an id before it
C28_Witness ==
    /\ searchRuns > 0
    /\ searchResults.kind = "found"
    /\ \E k \in 1..Len(searchResults.shown) :
          LET i == searchResults.shown[k].element
          IN /\ dom[i].tag \in HeadingTags
             /\ dom[i].id = ""
             /\ searchResults.shown[k].href \in {"s1", "s2"}

\* C29: when the modal is opened after it was closed and the reset of that
\* close has run, the form is visible and the success message hidden
C29_CleanReopen ==
    (opened.kind = "opened" /\ opened.afterReset)
        => /\ opened.form # "none"
           /\ opened.success # "block"

\* j is the element sibling right before i
IsPreviousSibling(j, i) ==
    /\ j # 0
    /\ j < i
    /\ dom[j].parent = dom[i].parent
    /\ ~\E m \in (j + 1)..(i - 1) : dom[m].parent = dom[i].parent

\* C30: the locator's walk from any node is finite, each step moves to the
\* previous sibling or to the parent, no node is visited twice, and the
\* walk ends at a linkable heading or at the root of the region
C30_WalkTerminates ==
    \A i \in 1..Len(dom) :
        LET w == Walk(dom, i)
        IN /\ w[1] = i
           /\ Len(w) <= Len(dom) + 1
           /\ \A k \in 1..(Len(w) - 1) :
                 /\ w[k] # 0
                 /\ ~IsLinkableHeading(w[k])
                 /\ \/ IsPreviousSibling(w[k + 1], w[k])
                    \/ w[k + 1] = dom[w[k]].parent
           /\ \A j, k \in 1..Len(w) : j # k => w[j] # w[k]
           /\ w[Len(w)] = 0 \/ IsLinkableHeading(w[Len(w)])
           /\ w[Len(w)] = FindParentHeading(dom, i)

\* the walk of a match goes to a sibling, then up two parents to the root
C30_Witness ==
    /\ searchRuns > 0
    /\ \E k \in 1..Len(results) :
          LET w == Walk(dom, results[k].element)
          IN /\ Len(w) = 4
             /\ IsPreviousSibling(w[2], w[1])
             /\ w[3] = dom[w[2]].parent
             /\ w[4] = 0
             /\ results[k].heading = NoHeading

====
